---- MODULE Spec2Model ----
(***************************************************************************)
(* The Either type of src/src/either.ts (Left = failure, Right = success), *)
(* its instance combinators and its static aggregation operations, driven  *)
(* by a caller that issues one call at a time and observes what the call   *)
(* returned, which caller-supplied functions it invoked and what it threw. *)
(***************************************************************************)
EXTENDS Integers, Sequences, FiniteSets, TLC

\* ------------------------------------------------------------------ bounds
\* Payloads are the numbers 0..MaxVal; arrays given to combine/sequence hold
\* at most MaxItems items.
MaxVal == 1
MaxItems == 3
MaxRequests == 3
MaxConfigs == 2
MaxMetric == 1

Val == 0 .. MaxVal

\* ------------------------------------------------------------ constructors
left(error) == [error |-> error, tag |-> "Left"]
right(value) == [tag |-> "Right", value |-> value]

EitherVals == {left(e) : e \in Val} \cup {right(v) : v \in Val}

\* Caller-supplied functions: every total function over the payloads.
Mappers == [Val -> Val]
Kleisli == [Val -> EitherVals]
Predicates == [Val -> BOOLEAN]
ErrorFactories == [Val -> Val]

\* One invocation of a caller-supplied function, as a call-counting spy sees it.
Call(fn, arg) == [fn |-> fn, arg |-> arg]

\* What a call yields: the returned value, the invocations of caller-supplied
\* functions it made (in order), and the error it threw (<<>> when none).
Returned(ret, calls) == [ret |-> ret, calls |-> calls, thrown |-> <<>>]
Thrown(message) == [ret |-> <<>>, calls |-> <<>>, thrown |-> <<"Error", message>>]

\* ------------------------------------------------------------- class Left
Left_map(self, mapper) == Returned(left(self.error), <<>>)

Left_mapError(self, fn) ==
    Returned(left(fn[self.error]), <<Call("fn", self.error)>>)

\* A faulty Left.flatMap: it runs the mapper on the held error.
Left_flatMap_applies(self, mapper) == Returned(mapper[self.error], <<>>)

Left_flatMap(self, mapper) == Returned(left(self.error), <<>>)

\* A faulty Left.filter: it tests the predicate before passing the error on.
Left_filter_eager(self, predicate, errorFactory) ==
    Returned(left(self.error), <<Call("predicate", self.error)>>)

Left_filter(self, predicate, errorFactory) == Returned(left(self.error), <<>>)

\* A faulty Left.getOrElse: it hands out what it holds, like Right.getOrElse.
Left_getOrElse_held(self, defaultValue) == Returned(self.error, <<>>)

Left_getOrElse(self, defaultValue) == Returned(defaultValue, <<>>)

Left_getErrorOrElse(self, defaultError) == Returned(self.error, <<>>)

\* A faulty Left.isRight: the body of Right.isRight.
Left_isRight_true(self) == TRUE

Left_isRight(self) == FALSE

Left_isLeft(self) == TRUE

\* A faulty Left.unwrap: it hands out the error instead of throwing.
Left_unwrap_returns(self) == Returned(self.error, <<>>)

Left_unwrap(self) == Thrown(<<"Cannot unwrap Left value: ", self.error>>)

Left_unwrapError(self) == Returned(self.error, <<>>)

Left_ifRight(self, callback) == Returned(self, <<>>)

\* A faulty Left.ifLeft: the body of Left.ifRight.
Left_ifLeft_silent(self, callback) == Returned(self, <<>>)

Left_ifLeft(self, callback) == Returned(self, <<Call("callback", self.error)>>)

\* ------------------------------------------------------------ class Right
\* A faulty Right.map: the body of Right.mapError, the mapper is not applied.
Right_map_unapplied(self, mapper) == Returned(right(self.value), <<>>)

Right_map(self, mapper) ==
    Returned(right(mapper[self.value]), <<Call("mapper", self.value)>>)

\* A faulty Right.mapError: it maps the value as if it were the error.
Right_mapError_applies(self, fn) ==
    Returned(right(fn[self.value]), <<Call("fn", self.value)>>)

Right_mapError(self, fn) == Returned(right(self.value), <<>>)

\* A faulty Right.flatMap: it runs the mapper but keeps the receiver when the
\* mapper succeeds.
Right_flatMap_keeps(self, mapper) ==
    Returned(IF mapper[self.value].tag = "Right" THEN self ELSE mapper[self.value],
             <<Call("mapper", self.value)>>)

Right_flatMap(self, mapper) ==
    Returned(mapper[self.value], <<Call("mapper", self.value)>>)

\* A faulty Right.filter: it builds the error before it tests the predicate.
Right_filter_eager(self, predicate, errorFactory) ==
    Returned(IF predicate[self.value] THEN right(self.value)
             ELSE left(errorFactory[self.value]),
             <<Call("errorFactory", self.value), Call("predicate", self.value)>>)

Right_filter(self, predicate, errorFactory) ==
    IF predicate[self.value]
    THEN Returned(right(self.value), <<Call("predicate", self.value)>>)
    ELSE Returned(left(errorFactory[self.value]),
                  <<Call("predicate", self.value),
                    Call("errorFactory", self.value)>>)

Right_getOrElse(self, defaultValue) == Returned(self.value, <<>>)

Right_getErrorOrElse(self, defaultError) == Returned(defaultError, <<>>)

Right_isRight(self) == TRUE

Right_isLeft(self) == FALSE

Right_unwrap(self) == Returned(self.value, <<>>)

Right_unwrapError(self) == Thrown(<<"Cannot unwrap error from Right value">>)

Right_ifRight(self, callback) == Returned(self, <<Call("callback", self.value)>>)

\* A faulty Right.ifLeft: the body of Right.ifRight.
Right_ifLeft_invokes(self, callback) ==
    Returned(self, <<Call("callback", self.value)>>)

Right_ifLeft(self, callback) == Returned(self, <<>>)

\* ------------------------------------- abstract class Either: dispatch
map(self, mapper) ==
    IF self.tag = "Left" THEN Left_map(self, mapper) ELSE Right_map(self, mapper)

mapError(self, fn) ==
    IF self.tag = "Left" THEN Left_mapError(self, fn) ELSE Right_mapError(self, fn)

flatMap(self, mapper) ==
    IF self.tag = "Left" THEN Left_flatMap(self, mapper)
    ELSE Right_flatMap(self, mapper)

filter(self, predicate, errorFactory) ==
    IF self.tag = "Left" THEN Left_filter(self, predicate, errorFactory)
    ELSE Right_filter(self, predicate, errorFactory)

getOrElse(self, defaultValue) ==
    IF self.tag = "Left" THEN Left_getOrElse(self, defaultValue)
    ELSE Right_getOrElse(self, defaultValue)

getErrorOrElse(self, defaultError) ==
    IF self.tag = "Left" THEN Left_getErrorOrElse(self, defaultError)
    ELSE Right_getErrorOrElse(self, defaultError)

isRight(self) ==
    IF self.tag = "Left" THEN Left_isRight(self) ELSE Right_isRight(self)

isLeft(self) ==
    IF self.tag = "Left" THEN Left_isLeft(self) ELSE Right_isLeft(self)

unwrap(self) ==
    IF self.tag = "Left" THEN Left_unwrap(self) ELSE Right_unwrap(self)

unwrapError(self) ==
    IF self.tag = "Left" THEN Left_unwrapError(self) ELSE Right_unwrapError(self)

ifRight(self, callback) ==
    IF self.tag = "Left" THEN Left_ifRight(self, callback)
    ELSE Right_ifRight(self, callback)

ifLeft(self, callback) ==
    IF self.tag = "Left" THEN Left_ifLeft(self, callback)
    ELSE Right_ifLeft(self, callback)

\* ------------------------------------------- match (the documented version)
\* The functions a caller hands to match: the identity and the constant ones.
Handlers ==
    {f \in Mappers : (\A v \in Val : f[v] = v) \/ (\A v, w \in Val : f[v] = f[w])}

\* The object of two functions a caller hands to match.
Cases == [left : Handlers, right : Handlers]

\* A faulty Left.match: the body of Right.match, reading the other field.
Left_match_right(self, cases) ==
    Returned(cases.right[self.error], <<Call("right", self.error)>>)

Left_match(self, cases) ==
    Returned(cases.left[self.error], <<Call("left", self.error)>>)

Right_match(self, cases) ==
    Returned(cases.right[self.value], <<Call("right", self.value)>>)

match(self, cases) ==
    IF self.tag = "Left" THEN Left_match(self, cases)
    ELSE Right_match(self, cases)

\* --------------------------------------------------- JavaScript values
\* null and undefined, as values distinct from every payload of Val.
JsNull == -1
JsUndefined == -2
Nullable == Val \cup {JsNull, JsUndefined}

\* A promise is pending, fulfilled with a value or rejected with a reason.
NoPromise == [state |-> "none"]
Pending == [state |-> "pending"]
Fulfilled(value) == [value |-> value, state |-> "fulfilled"]
Rejected(reason) == [state |-> "rejected", reason |-> reason]

\* ------------------------------------------------ the /with-either route
\* The requests the server handles, each one run of the route handler.
Requests == 1..MaxRequests

\* request.query.fail: "true", "false", or not given.
QueryFail == {"true", "false", "absent"}

\* The two payloads of fetchDataWithEither.
APIError == [message |-> "Erro na API!", code |-> 500]
SuccessResponse == [data |-> "Sucesso!"]

\* An async function without an await: its promise is fulfilled on return.
fetchDataWithEither(shouldFail) ==
    IF shouldFail THEN Fulfilled(left(APIError))
    ELSE Fulfilled(right(SuccessResponse))

\* A reply the handler sends: <<status, payload>>, the status <<>> when the
\* handler did not set one.
onLeft(error) == <<<<error.code>>, [error |-> error.message]>>
onRight(success) == <<<<>>, success>>

\* What the two callbacks of result.ifLeft(...).ifRight(...) send, in order.
with_either_sends(result) ==
    LET first == ifLeft(result, "callback")
        second == ifRight(first.ret, "callback")
    IN  [k \in DOMAIN first.calls |-> onLeft(first.calls[k].arg)]
        \o [k \in DOMAIN second.calls |-> onRight(second.calls[k].arg)]

\* ------------------------------------------------------- the benchmark
\* The connection levels of configs, of which the first MaxConfigs are run.
connectionLevels == <<100, 200, 400, 800, 1000>>
configs == SubSeq(connectionLevels, 1, MaxConfigs)

\* The keys of urls, in the order Object.entries yields them.
urls == <<"Throw Error", "Either Pattern">>

\* What autocannon measured: requests.average, latency.average, latency.p99.
Metric == 0..MaxMetric

\* JavaScript number values: a finite number, NaN, -Infinity; and undefined.
Num(n) == <<"number", n>>
NaN == <<"NaN">>
NEGATIVE_INFINITY == <<"-Infinity">>
Undefined == <<"undefined">>

\* result.field: the number stored, undefined when the object has no such field.
Field(result, field) ==
    IF field \in DOMAIN result THEN Num(result[field]) ELSE Undefined

\* a * k for a numeric literal k: undefined converts to NaN, NaN stays NaN.
Times(a, k) ==
    IF a[1] = "number" THEN Num(a[2] * k)
    ELSE IF a[1] = "-Infinity" THEN NEGATIVE_INFINITY
    ELSE NaN

Plus(a, b) ==
    IF a[1] = "number" /\ b[1] = "number" THEN Num(a[2] + b[2])
    ELSE IF a[1] \in {"NaN", "undefined"} \/ b[1] \in {"NaN", "undefined"} THEN NaN
    ELSE NEGATIVE_INFINITY

\* a - b, for a b that is never -Infinity here.
Minus(a, b) ==
    IF a[1] = "number" /\ b[1] = "number" THEN Num(a[2] - b[2])
    ELSE IF a[1] \in {"NaN", "undefined"} \/ b[1] # "number" THEN NaN
    ELSE NEGATIVE_INFINITY

\* a > b: false whenever either side is NaN.
GreaterThan(a, b) ==
    IF a[1] = "number" /\ b[1] = "number" THEN a[2] > b[2]
    ELSE a[1] = "number" /\ b[1] = "-Infinity"

\* The object runTests pushes for one autocannon run.
pushed(name, connections, requestsPerSecond, latencyAvg, latencyP99) ==
    [name |-> name, connections |-> connections,
     requestsPerSecond |-> requestsPerSecond, latencyAvg |-> latencyAvg,
     latencyP99 |-> latencyP99]

\* The score the loop body of evaluateBestApproach computes for one result.
score(result) ==
    LET s0 == Num(0)
        s1 == Plus(s0, Times(Field(result, "requestsPerSecond"), 3))
        s2 == Minus(s1, Times(Field(result, "latencyAvg"), 2))
        s3 == Minus(s2, Times(Field(result, "latencyP99"), 1))
        s4 == Minus(s3, Times(Field(result, "errors"), 5))
    IN  Minus(s4, Times(Field(result, "timeouts"), 10))

\* The inner loop from item k on; best is <<>> for null, <<result>> otherwise.
RECURSIVE best_scan(_, _, _, _)
best_scan(data, k, best, highestScore) ==
    IF k > Len(data) THEN best
    ELSE IF GreaterThan(score(data[k]), highestScore)
         THEN best_scan(data, k + 1, <<data[k]>>, score(data[k]))
         ELSE best_scan(data, k + 1, best, highestScore)

\* The integer keys of an object, ascending, as Object.entries yields them.
RECURSIVE entries_order(_)
entries_order(keys) ==
    IF keys = {} THEN <<>>
    ELSE LET k == CHOOSE x \in keys : \A y \in keys : x <= y
         IN  <<k>> \o entries_order(keys \ {k})

\* groupedResults[connections]: the results of one level, in pushed order.
groupedResults(rs, connections) ==
    SelectSeq(rs, LAMBDA r : r.connections = connections)

\* The entries <<connections, best>> of the object the function returns.
evaluateBestApproach(rs) ==
    LET order == entries_order({rs[i].connections : i \in DOMAIN rs})
    IN  [k \in DOMAIN order |->
            <<order[k],
              best_scan(groupedResults(rs, order[k]), 1, <<>>, NEGATIVE_INFINITY)>>]

\* The markdown: one table row per result, then one line per best entry.
markdown(rs, best) ==
    [i \in DOMAIN rs |->
        <<"row", rs[i].connections, rs[i].name, rs[i].requestsPerSecond,
          rs[i].latencyAvg, rs[i].latencyP99>>]
    \o [k \in DOMAIN best |->
        <<"best", best[k][1], best[k][2][1].name,
          best[k][2][1].requestsPerSecond>>]

\* ------------------------------------------------- static fromNullable
\* A faulty fromNullable: it tests !value, so the falsy 0 counts as absent.
fromNullable_falsy(value, error) ==
    IF value = JsNull \/ value = JsUndefined \/ value = 0
    THEN Returned(left(error), <<>>)
    ELSE Returned(right(value), <<>>)

fromNullable(value, error) ==
    IF value = JsNull \/ value = JsUndefined
    THEN Returned(left(error), <<>>)
    ELSE Returned(right(value), <<>>)

\* ------------------------------- the documented version (part_000)
\* The second copy of the type, translated from its own text; match of this
\* copy is modelled above.
part_000_left(error) == [error |-> error, tag |-> "Left"]
part_000_right(value) == [tag |-> "Right", value |-> value]

part_000_Left_map(self, mapper) == Returned(part_000_left(self.error), <<>>)

part_000_Left_mapError(self, fn) ==
    Returned(part_000_left(fn[self.error]), <<Call("fn", self.error)>>)

part_000_Left_flatMap(self, mapper) == Returned(part_000_left(self.error), <<>>)

part_000_Left_filter(self, predicate, errorFactory) ==
    Returned(part_000_left(self.error), <<>>)

part_000_Left_getOrElse(self, defaultValue) == Returned(defaultValue, <<>>)

\* A faulty copy of Left.getErrorOrElse: it returns the default.
part_000_Left_getErrorOrElse_default(self, defaultError) ==
    Returned(defaultError, <<>>)

part_000_Left_getErrorOrElse(self, defaultError) == Returned(self.error, <<>>)

part_000_Left_isRight(self) == FALSE

part_000_Left_isLeft(self) == TRUE

part_000_Left_unwrap(self) ==
    Thrown(<<"Cannot unwrap Left value: ", self.error>>)

part_000_Left_unwrapError(self) == Returned(self.error, <<>>)

part_000_Left_ifRight(self, callback) == Returned(self, <<>>)

part_000_Left_ifLeft(self, callback) ==
    Returned(self, <<Call("callback", self.error)>>)

part_000_Right_map(self, mapper) ==
    Returned(part_000_right(mapper[self.value]), <<Call("mapper", self.value)>>)

part_000_Right_mapError(self, fn) == Returned(part_000_right(self.value), <<>>)

part_000_Right_flatMap(self, mapper) ==
    Returned(mapper[self.value], <<Call("mapper", self.value)>>)

part_000_Right_filter(self, predicate, errorFactory) ==
    IF predicate[self.value]
    THEN Returned(part_000_right(self.value), <<Call("predicate", self.value)>>)
    ELSE Returned(part_000_left(errorFactory[self.value]),
                  <<Call("predicate", self.value),
                    Call("errorFactory", self.value)>>)

part_000_Right_getOrElse(self, defaultValue) == Returned(self.value, <<>>)

part_000_Right_getErrorOrElse(self, defaultError) == Returned(defaultError, <<>>)

part_000_Right_isRight(self) == TRUE

part_000_Right_isLeft(self) == FALSE

part_000_Right_unwrap(self) == Returned(self.value, <<>>)

part_000_Right_unwrapError(self) ==
    Thrown(<<"Cannot unwrap error from Right value">>)

part_000_Right_ifRight(self, callback) ==
    Returned(self, <<Call("callback", self.value)>>)

part_000_Right_ifLeft(self, callback) == Returned(self, <<>>)

part_000_map(self, mapper) ==
    IF self.tag = "Left" THEN part_000_Left_map(self, mapper)
    ELSE part_000_Right_map(self, mapper)

part_000_mapError(self, fn) ==
    IF self.tag = "Left" THEN part_000_Left_mapError(self, fn)
    ELSE part_000_Right_mapError(self, fn)

part_000_flatMap(self, mapper) ==
    IF self.tag = "Left" THEN part_000_Left_flatMap(self, mapper)
    ELSE part_000_Right_flatMap(self, mapper)

part_000_filter(self, predicate, errorFactory) ==
    IF self.tag = "Left" THEN part_000_Left_filter(self, predicate, errorFactory)
    ELSE part_000_Right_filter(self, predicate, errorFactory)

part_000_getOrElse(self, defaultValue) ==
    IF self.tag = "Left" THEN part_000_Left_getOrElse(self, defaultValue)
    ELSE part_000_Right_getOrElse(self, defaultValue)

part_000_getErrorOrElse(self, defaultError) ==
    IF self.tag = "Left" THEN part_000_Left_getErrorOrElse(self, defaultError)
    ELSE part_000_Right_getErrorOrElse(self, defaultError)

part_000_isRight(self) ==
    IF self.tag = "Left" THEN part_000_Left_isRight(self)
    ELSE part_000_Right_isRight(self)

part_000_isLeft(self) ==
    IF self.tag = "Left" THEN part_000_Left_isLeft(self)
    ELSE part_000_Right_isLeft(self)

part_000_unwrap(self) ==
    IF self.tag = "Left" THEN part_000_Left_unwrap(self)
    ELSE part_000_Right_unwrap(self)

part_000_unwrapError(self) ==
    IF self.tag = "Left" THEN part_000_Left_unwrapError(self)
    ELSE part_000_Right_unwrapError(self)

part_000_ifRight(self, callback) ==
    IF self.tag = "Left" THEN part_000_Left_ifRight(self, callback)
    ELSE part_000_Right_ifRight(self, callback)

part_000_ifLeft(self, callback) ==
    IF self.tag = "Left" THEN part_000_Left_ifLeft(self, callback)
    ELSE part_000_Right_ifLeft(self, callback)

\* fromPromise on a settled promise p: what the returned promise becomes.
part_000_fromPromise(p) ==
    IF p.state = "fulfilled" THEN Fulfilled(part_000_right(p.value))
    ELSE Fulfilled(part_000_left(p.reason))

part_000_fromNullable(value, error) ==
    IF value = JsNull \/ value = JsUndefined
    THEN Returned(part_000_left(error), <<>>)
    ELSE Returned(part_000_right(value), <<>>)

\* The for-of loop of combine from item k on, with the local rights.
RECURSIVE part_000_combine_loop(_, _, _)
part_000_combine_loop(eithers, k, rights) ==
    IF k > Len(eithers) THEN Returned(part_000_right(rights), <<>>)
    ELSE IF part_000_isLeft(eithers[k])
    THEN LET u == part_000_unwrapError(eithers[k])
         IN  IF u.thrown # <<>> THEN u ELSE Returned(part_000_left(u.ret), <<>>)
    ELSE LET u == part_000_unwrap(eithers[k])
         IN  IF u.thrown # <<>> THEN u
             ELSE part_000_combine_loop(eithers, k + 1, Append(rights, u.ret))

part_000_combine(eithers) == part_000_combine_loop(eithers, 1, <<>>)

\* The for-of loop of sequence from item k on, with the locals rights, lefts.
RECURSIVE part_000_sequence_loop(_, _, _, _)
part_000_sequence_loop(eithers, k, rights, lefts) ==
    IF k > Len(eithers)
    THEN IF Len(lefts) # 0 THEN Returned(part_000_left(lefts), <<>>)
         ELSE Returned(part_000_right(rights), <<>>)
    ELSE IF part_000_isRight(eithers[k])
    THEN LET u == part_000_unwrap(eithers[k])
         IN  IF u.thrown # <<>> THEN u
             ELSE part_000_sequence_loop(eithers, k + 1, Append(rights, u.ret),
                                         lefts)
    ELSE LET u == part_000_unwrapError(eithers[k])
         IN  IF u.thrown # <<>> THEN u
             ELSE part_000_sequence_loop(eithers, k + 1, rights,
                                         Append(lefts, u.ret))

part_000_sequence(eithers) == part_000_sequence_loop(eithers, 1, <<>>, <<>>)

\* ------------------------------------------------------------------ state
VARIABLES
    cur,        \* the Either the caller holds (the receiver of the next call)
    prev,       \* the receiver of the last call
    op,         \* the last call
    args,       \* its arguments
    calls,      \* the caller-supplied functions it invoked, in order
    ret,        \* <<v>> when it returned the plain value v, else <<>>
    thrown,     \* the error it threw, <<>> when none
    pc,         \* "idle", or where the running static call stands
    items,      \* the array given to combine / sequence
    idx,        \* how many items the running loop has consumed
    rights,     \* local rights of combine / sequence
    lefts,      \* local lefts of sequence
    inspected,  \* the indices of items the running loop has read
    aggRet,     \* <<e>> when combine / sequence returned the Either e
    promise,    \* the promise given to fromPromise
    returned,   \* the promise fromPromise returned
    awaits,     \* how many times the running fromPromise has awaited
    earlier,    \* <<o, e>>: the static call o returned e for the same array
    rpc,        \* per request of /with-either: "none", "awaiting" or "done"
    rresult,    \* per request: <<e>>, the Either fetchDataWithEither resolved to
    rsent,      \* per request: the replies sent, in order
    bpc,        \* the benchmark: "idle", "measuring", "done" or "failed"
    results,    \* the benchmark: the results runTests has collected
    bestResults,\* the benchmark: what evaluateBestApproach returned
    report,     \* the benchmark: the lines written to RESULTS.md
    bthrown     \* the benchmark: the error that ended it, <<>> when none

eitherVars == <<cur, prev, op, args, calls, ret, thrown, pc, items, idx, rights,
                lefts, inspected, aggRet, promise, returned, awaits, earlier>>

routeVars == <<rpc, rresult, rsent>>

benchVars == <<bpc, results, bestResults, report, bthrown>>

vars == <<eitherVars, routeVars, benchVars>>

Init ==
    /\ cur \in {left(v) : v \in Val} \cup {right(v) : v \in Val}
    /\ prev = cur
    /\ op = "new"
    /\ args = <<>>
    /\ calls = <<>>
    /\ ret = <<>>
    /\ thrown = <<>>
    /\ pc = "idle"
    /\ items = <<>>
    /\ idx = 0
    /\ rights = <<>>
    /\ lefts = <<>>
    /\ inspected = {}
    /\ aggRet = <<>>
    /\ promise = NoPromise
    /\ returned = NoPromise
    /\ awaits = 0
    /\ earlier = <<>>
    /\ rpc = [i \in Requests |-> "none"]
    /\ rresult = [i \in Requests |-> <<>>]
    /\ rsent = [i \in Requests |-> <<>>]
    /\ bpc = "idle"
    /\ results = <<>>
    /\ bestResults = <<>>
    /\ report = <<>>
    /\ bthrown = <<>>

\* The caller is between two calls: nothing is running.
Ready == pc \in {"idle", "done"}

\* A new call starts: the locals and the result of the last static call are gone.
NoFrame ==
    /\ items' = <<>>
    /\ idx' = 0
    /\ rights' = <<>>
    /\ lefts' = <<>>
    /\ inspected' = {}
    /\ aggRet' = <<>>
    /\ promise' = NoPromise
    /\ returned' = NoPromise
    /\ awaits' = 0
    /\ earlier' = <<>>
    /\ UNCHANGED <<routeVars, benchVars>>

\* The caller records what the call r named o with arguments a did.
Observe(o, a, r) ==
    /\ op' = o
    /\ args' = a
    /\ calls' = r.calls
    /\ thrown' = r.thrown
    /\ pc' = "idle"
    /\ NoFrame

\* A call that returns an Either, which the caller holds from then on.
Chained(o, a, r) ==
    /\ Ready
    /\ prev' = cur
    /\ cur' = r.ret
    /\ ret' = <<>>
    /\ Observe(o, a, r)

\* A call that returns a plain value or throws; the caller keeps its Either.
Extracted(o, a, r) ==
    /\ Ready
    /\ prev' = cur
    /\ cur' = cur
    /\ ret' = IF r.thrown = <<>> THEN <<r.ret>> ELSE <<>>
    /\ Observe(o, a, r)

\* A static call or constructor: no receiver.
Constructed(o, a, r) ==
    /\ Ready
    /\ cur' = r.ret
    /\ prev' = r.ret
    /\ ret' = <<>>
    /\ Observe(o, a, r)

\* ---------------------------------------------------------------- actions
NewLeft == \E e \in Val : Constructed("left", <<e>>, Returned(left(e), <<>>))

NewRight == \E v \in Val : Constructed("right", <<v>>, Returned(right(v), <<>>))

Map == \E mapper \in Mappers : Chained("map", <<mapper>>, map(cur, mapper))

MapError == \E fn \in Mappers : Chained("mapError", <<fn>>, mapError(cur, fn))

FlatMap ==
    \E mapper \in Kleisli : Chained("flatMap", <<mapper>>, flatMap(cur, mapper))

Filter ==
    \E predicate \in Predicates, errorFactory \in ErrorFactories :
        Chained("filter", <<predicate, errorFactory>>,
                filter(cur, predicate, errorFactory))

IfRight == Chained("ifRight", <<>>, ifRight(cur, "callback"))

IfLeft == Chained("ifLeft", <<>>, ifLeft(cur, "callback"))

GetOrElse ==
    \E defaultValue \in Val :
        Extracted("getOrElse", <<defaultValue>>, getOrElse(cur, defaultValue))

GetErrorOrElse ==
    \E defaultError \in Val :
        Extracted("getErrorOrElse", <<defaultError>>,
                  getErrorOrElse(cur, defaultError))

Unwrap == Extracted("unwrap", <<>>, unwrap(cur))

UnwrapError == Extracted("unwrapError", <<>>, unwrapError(cur))

Match ==
    \E cases \in Cases : Extracted("match", <<cases>>, match(cur, cases))

FromNullable ==
    \E value \in Nullable, error \in Val :
        Constructed("fromNullable", <<value, error>>, fromNullable(value, error))

\* ------------------------------------------- the array given to a static call
\* The caller builds the array literal item by item, each item by a constructor.
CanPush ==
    /\ pc \in {"idle", "done", "building"}
    /\ (pc = "building" => Len(items) < MaxItems)

Pushed(either) ==
    /\ CanPush
    /\ items' = IF pc = "building" THEN Append(items, either) ELSE <<either>>
    /\ pc' = "building"
    /\ op' = "array"
    /\ prev' = cur
    /\ args' = <<>>
    /\ calls' = <<>>
    /\ ret' = <<>>
    /\ thrown' = <<>>
    /\ idx' = 0
    /\ rights' = <<>>
    /\ lefts' = <<>>
    /\ inspected' = {}
    /\ aggRet' = <<>>
    /\ promise' = NoPromise
    /\ returned' = NoPromise
    /\ awaits' = 0
    /\ earlier' = <<>>
    /\ UNCHANGED <<routeVars, benchVars>>
    /\ UNCHANGED cur

PushLeft == \E e \in Val : Pushed(left(e))

PushRight == \E v \in Val : Pushed(right(v))

\* The array a static call receives: the one just built, or the empty array.
ArrayGiven == IF pc = "building" THEN items ELSE <<>>

\* Entry of combine / sequence: the locals are initialised, the loop is ahead.
Entered(o) ==
    /\ pc \in {"idle", "done", "building"}
    /\ items' = ArrayGiven
    /\ pc' = o
    /\ op' = o
    /\ prev' = cur
    /\ args' = <<>>
    /\ calls' = <<>>
    /\ ret' = <<>>
    /\ thrown' = <<>>
    /\ idx' = 0
    /\ rights' = <<>>
    /\ lefts' = <<>>
    /\ inspected' = {}
    /\ aggRet' = <<>>
    /\ promise' = NoPromise
    /\ returned' = NoPromise
    /\ awaits' = 0
    /\ earlier' = <<>>
    /\ UNCHANGED <<routeVars, benchVars>>
    /\ UNCHANGED cur

\* ---------------------------------------------------------- static combine
combine_call == Entered("combine")

\* A faulty loop body: rights.unshift instead of rights.push.
combine_iter_unshift ==
    /\ pc = "combine"
    /\ idx < Len(items)
    /\ LET either == items[idx + 1] IN
        /\ inspected' = inspected \cup {idx + 1}
        /\ idx' = idx + 1
        /\ IF isLeft(either)
           THEN LET u == unwrapError(either) IN
                /\ thrown' = u.thrown
                /\ aggRet' = IF u.thrown = <<>> THEN <<left(u.ret)>> ELSE <<>>
                /\ pc' = "done"
                /\ rights' = rights
           ELSE LET u == unwrap(either) IN
                /\ thrown' = u.thrown
                /\ aggRet' = <<>>
                /\ pc' = IF u.thrown = <<>> THEN "combine" ELSE "done"
                /\ rights' = IF u.thrown = <<>> THEN <<u.ret>> \o rights
                             ELSE rights
    /\ UNCHANGED <<cur, prev, op, args, calls, ret, items, lefts, promise, returned,
                   awaits, earlier, routeVars, benchVars>>

\* A faulty loop body: it remembers the first Left and scans on to the end.
combine_iter_scans_on ==
    /\ pc = "combine"
    /\ idx < Len(items)
    /\ LET either == items[idx + 1] IN
        /\ inspected' = inspected \cup {idx + 1}
        /\ idx' = idx + 1
        /\ IF isLeft(either)
           THEN LET u == unwrapError(either) IN
                /\ thrown' = u.thrown
                /\ aggRet' = IF aggRet = <<>> THEN <<left(u.ret)>> ELSE aggRet
                /\ pc' = IF idx + 1 = Len(items) THEN "done" ELSE "combine"
                /\ rights' = rights
           ELSE LET u == unwrap(either) IN
                /\ thrown' = u.thrown
                /\ aggRet' = aggRet
                /\ pc' = IF aggRet # <<>> /\ idx + 1 = Len(items) THEN "done"
                         ELSE "combine"
                /\ rights' = Append(rights, u.ret)
    /\ UNCHANGED <<cur, prev, op, args, calls, ret, items, lefts, promise, returned,
                   awaits, earlier, routeVars, benchVars>>

\* A faulty loop body: it consumes the caller's array with eithers.shift().
combine_iter_shift ==
    /\ pc = "combine"
    /\ idx < Len(items)
    /\ LET either == items[1] IN
        /\ inspected' = inspected \cup {idx + 1}
        /\ idx' = idx
        /\ items' = Tail(items)
        /\ IF isLeft(either)
           THEN LET u == unwrapError(either) IN
                /\ thrown' = u.thrown
                /\ aggRet' = IF u.thrown = <<>> THEN <<left(u.ret)>> ELSE <<>>
                /\ pc' = "done"
                /\ rights' = rights
           ELSE LET u == unwrap(either) IN
                /\ thrown' = u.thrown
                /\ aggRet' = <<>>
                /\ pc' = IF u.thrown = <<>> THEN "combine" ELSE "done"
                /\ rights' = IF u.thrown = <<>> THEN Append(rights, u.ret)
                             ELSE rights
    /\ UNCHANGED <<cur, prev, op, args, calls, ret, lefts, promise, returned,
                   awaits, earlier, routeVars, benchVars>>

\* One iteration of the for-of loop: the iterator hands over the next item.
combine_iter ==
    /\ pc = "combine"
    /\ idx < Len(items)
    /\ LET either == items[idx + 1] IN
        /\ inspected' = inspected \cup {idx + 1}
        /\ idx' = idx + 1
        /\ IF isLeft(either)
           THEN LET u == unwrapError(either) IN
                /\ thrown' = u.thrown
                /\ aggRet' = IF u.thrown = <<>> THEN <<left(u.ret)>> ELSE <<>>
                /\ pc' = "done"
                /\ rights' = rights
           ELSE LET u == unwrap(either) IN
                /\ thrown' = u.thrown
                /\ aggRet' = <<>>
                /\ pc' = IF u.thrown = <<>> THEN "combine" ELSE "done"
                /\ rights' = IF u.thrown = <<>> THEN Append(rights, u.ret)
                             ELSE rights
    /\ UNCHANGED <<cur, prev, op, args, calls, ret, items, lefts, promise, returned,
                   awaits, earlier, routeVars, benchVars>>

\* The loop is exhausted: return new Right(rights).
combine_return ==
    /\ pc = "combine"
    /\ idx = Len(items)
    /\ aggRet' = <<right(rights)>>
    /\ pc' = "done"
    /\ UNCHANGED <<cur, prev, op, args, calls, ret, thrown, items, idx, rights,
                   lefts, inspected, promise, returned, awaits, earlier, routeVars,
                   benchVars>>

\* --------------------------------------------------------- static sequence
sequence_call == Entered("sequence")

\* A faulty loop body: the test is isLeft, so each item is extracted the wrong way.
sequence_iter_swapped ==
    /\ pc = "sequence"
    /\ idx < Len(items)
    /\ LET either == items[idx + 1] IN
        /\ inspected' = inspected \cup {idx + 1}
        /\ idx' = idx + 1
        /\ IF isLeft(either)
           THEN LET u == unwrap(either) IN
                /\ thrown' = u.thrown
                /\ pc' = IF u.thrown = <<>> THEN "sequence" ELSE "done"
                /\ rights' = IF u.thrown = <<>> THEN Append(rights, u.ret)
                             ELSE rights
                /\ lefts' = lefts
           ELSE LET u == unwrapError(either) IN
                /\ thrown' = u.thrown
                /\ pc' = IF u.thrown = <<>> THEN "sequence" ELSE "done"
                /\ lefts' = IF u.thrown = <<>> THEN Append(lefts, u.ret)
                            ELSE lefts
                /\ rights' = rights
    /\ UNCHANGED <<cur, prev, op, args, calls, ret, items, aggRet, promise,
                   returned, awaits, earlier, routeVars, benchVars>>

sequence_iter ==
    /\ pc = "sequence"
    /\ idx < Len(items)
    /\ LET either == items[idx + 1] IN
        /\ inspected' = inspected \cup {idx + 1}
        /\ idx' = idx + 1
        /\ IF isRight(either)
           THEN LET u == unwrap(either) IN
                /\ thrown' = u.thrown
                /\ pc' = IF u.thrown = <<>> THEN "sequence" ELSE "done"
                /\ rights' = IF u.thrown = <<>> THEN Append(rights, u.ret)
                             ELSE rights
                /\ lefts' = lefts
           ELSE LET u == unwrapError(either) IN
                /\ thrown' = u.thrown
                /\ pc' = IF u.thrown = <<>> THEN "sequence" ELSE "done"
                /\ lefts' = IF u.thrown = <<>> THEN Append(lefts, u.ret)
                            ELSE lefts
                /\ rights' = rights
    /\ UNCHANGED <<cur, prev, op, args, calls, ret, items, aggRet, promise,
                   returned, awaits, earlier, routeVars, benchVars>>

\* A faulty return: lefts.length > 1 decides instead of lefts.length.
sequence_return_offbyone ==
    /\ pc = "sequence"
    /\ idx = Len(items)
    /\ aggRet' = IF Len(lefts) > 1 THEN <<left(lefts)>> ELSE <<right(rights)>>
    /\ pc' = "done"
    /\ UNCHANGED <<cur, prev, op, args, calls, ret, thrown, items, idx, rights,
                   lefts, inspected, promise, returned, awaits, earlier, routeVars,
                   benchVars>>

\* A faulty return: the failures are handed out last first.
sequence_return_reversed ==
    /\ pc = "sequence"
    /\ idx = Len(items)
    /\ aggRet' = IF Len(lefts) # 0
                 THEN <<left([i \in DOMAIN lefts |-> lefts[Len(lefts) + 1 - i]])>>
                 ELSE <<right(rights)>>
    /\ pc' = "done"
    /\ UNCHANGED <<cur, prev, op, args, calls, ret, thrown, items, idx, rights,
                   lefts, inspected, promise, returned, awaits, earlier, routeVars,
                   benchVars>>

\* The loop is exhausted: return lefts.length ? new Left(lefts) : new Right(rights).
sequence_return ==
    /\ pc = "sequence"
    /\ idx = Len(items)
    /\ aggRet' = IF Len(lefts) # 0 THEN <<left(lefts)>> ELSE <<right(rights)>>
    /\ pc' = "done"
    /\ UNCHANGED <<cur, prev, op, args, calls, ret, thrown, items, idx, rights,
                   lefts, inspected, promise, returned, awaits, earlier, routeVars,
                   benchVars>>

\* ------------------------------- the same array given to a second call
\* The caller passes the array of the static call that just returned to the
\* other static call, once, and keeps what the first call returned.
Reentered(o) ==
    /\ pc = "done"
    /\ op \in {"combine", "sequence"} \ {o}
    /\ earlier = <<>>
    /\ aggRet # <<>>
    /\ earlier' = <<op, aggRet[1]>>
    /\ pc' = o
    /\ op' = o
    /\ prev' = cur
    /\ args' = <<>>
    /\ calls' = <<>>
    /\ ret' = <<>>
    /\ thrown' = <<>>
    /\ idx' = 0
    /\ rights' = <<>>
    /\ lefts' = <<>>
    /\ inspected' = {}
    /\ aggRet' = <<>>
    /\ UNCHANGED <<cur, items, promise, returned, awaits, routeVars, benchVars>>

combine_again == Reentered("combine")

sequence_again == Reentered("sequence")

\* ------------------------------------------------------ static fromPromise
Promises == {Pending} \cup {Fulfilled(v) : v \in Val} \cup {Rejected(e) : e \in Val}

\* Entry of the async function up to its await: the caller is suspended too.
fromPromise_call ==
    /\ Ready
    /\ \E p \in Promises : promise' = p
    /\ pc' = "awaiting"
    /\ op' = "fromPromise"
    /\ prev' = cur
    /\ args' = <<>>
    /\ calls' = <<>>
    /\ ret' = <<>>
    /\ thrown' = <<>>
    /\ items' = <<>>
    /\ idx' = 0
    /\ rights' = <<>>
    /\ lefts' = <<>>
    /\ inspected' = {}
    /\ aggRet' = <<>>
    /\ returned' = Pending
    /\ awaits' = 1
    /\ earlier' = <<>>
    /\ UNCHANGED <<cur, routeVars, benchVars>>

\* The environment settles the wrapped promise.
promise_settle ==
    /\ pc = "awaiting"
    /\ promise = Pending
    /\ \E v \in Val : promise' = Fulfilled(v) \/ promise' = Rejected(v)
    /\ UNCHANGED <<cur, prev, op, args, calls, ret, thrown, pc, items, idx,
                   rights, lefts, inspected, aggRet, returned, awaits, earlier, routeVars,
                   benchVars>>

\* A faulty continuation: the catch branch throws the error on.
fromPromise_rethrows(p) ==
    IF p.state = "fulfilled" THEN Fulfilled(right(p.value)) ELSE Rejected(p.reason)

\* What the returned promise becomes once the await has resumed on the settled
\* promise p: the try branch on fulfilment, the catch branch on rejection.
fromPromise_settled(p) ==
    IF p.state = "fulfilled" THEN Fulfilled(right(p.value))
    ELSE Fulfilled(left(p.reason))

\* The await resumes; the caller, who awaits the returned promise, resumes too.
fromPromise_resume ==
    /\ pc = "awaiting"
    /\ promise.state \in {"fulfilled", "rejected"}
    /\ LET out == fromPromise_settled(promise) IN
        /\ returned' = out
        /\ cur' = IF out.state = "fulfilled" THEN out.value ELSE cur
        /\ thrown' = IF out.state = "rejected" THEN <<"rejected", out.reason>>
                     ELSE thrown
    /\ prev' = cur'
    /\ pc' = "done"
    /\ UNCHANGED <<op, args, calls, ret, items, idx, rights, lefts, inspected,
                   aggRet, promise, awaits, earlier, routeVars, benchVars>>

\* ------------------------------------------------- the route's handler
\* A request arrives: the handler calls fetchDataWithEither and awaits it.
route_request(i) ==
    /\ rpc[i] = "none"
    /\ \E fail \in QueryFail :
        rresult' = [rresult EXCEPT ![i] = <<fetchDataWithEither(fail = "true")>>]
    /\ rpc' = [rpc EXCEPT ![i] = "awaiting"]
    /\ UNCHANGED <<rsent, eitherVars, benchVars>>

\* The handler resumes after the await and runs the chain of two callbacks.
route_resume(i) ==
    /\ rpc[i] = "awaiting"
    /\ rsent' = [rsent EXCEPT ![i] = with_either_sends(rresult[i][1].value)]
    /\ rpc' = [rpc EXCEPT ![i] = "done"]
    /\ UNCHANGED <<rresult, eitherVars, benchVars>>

\* ------------------------------------------------------------- runTests
\* runTests starts and awaits the first autocannon run.
runTests_call ==
    /\ bpc = "idle"
    /\ bpc' = "measuring"
    /\ UNCHANGED <<results, bestResults, report, bthrown, eitherVars, routeVars>>

\* generateMarkdownReport(rs): best.name throws on a null best, before the
\* file is written.
generateMarkdownReport(rs) ==
    LET best == evaluateBestApproach(rs) IN
    /\ bestResults' = best
    /\ IF \E k \in DOMAIN best : best[k][2] = <<>>
       THEN /\ bthrown' = <<"TypeError">>
            /\ report' = report
            /\ bpc' = "failed"
       ELSE /\ bthrown' = bthrown
            /\ report' = <<markdown(rs, best)>>
            /\ bpc' = "done"

\* An autocannon run resolves: runTests pushes its result and awaits the next
\* run, or after the last one calls generateMarkdownReport.
runTests_resume ==
    /\ bpc = "measuring"
    /\ \E requestsPerSecond \in Metric, latencyAvg \in Metric, latencyP99 \in Metric :
        LET n == Len(results)
            config == configs[(n \div Len(urls)) + 1]
            name == urls[(n % Len(urls)) + 1]
            rs == Append(results, pushed(name, config, requestsPerSecond,
                                         latencyAvg, latencyP99))
        IN  /\ results' = rs
            /\ IF Len(rs) < Len(configs) * Len(urls)
               THEN UNCHANGED <<bpc, bestResults, report, bthrown>>
               ELSE generateMarkdownReport(rs)
    /\ UNCHANGED <<eitherVars, routeVars>>

NextBench ==
    \/ runTests_call
    \/ runTests_resume

SpecBench == Init /\ [][NextBench]_vars

NextRoute ==
    \/ \E i \in Requests : route_request(i)
    \/ \E i \in Requests : route_resume(i)

SpecRoute == Init /\ [][NextRoute]_vars

Next ==
    \/ NewLeft
    \/ NewRight
    \/ Map
    \/ MapError
    \/ FlatMap
    \/ Filter
    \/ IfRight
    \/ IfLeft
    \/ GetOrElse
    \/ GetErrorOrElse
    \/ Unwrap
    \/ UnwrapError
    \/ Match
    \/ FromNullable
    \/ PushLeft
    \/ PushRight
    \/ combine_call
    \/ combine_iter
    \/ combine_return
    \/ sequence_call
    \/ sequence_iter
    \/ sequence_return
    \/ combine_again
    \/ sequence_again
    \/ fromPromise_call
    \/ promise_settle
    \/ fromPromise_resume

Spec == Init /\ [][Next]_vars

\* ===================================================================== claims
\* The instance operations of either.ts, which take the caller's Either as
\* receiver.
InstanceOps ==
    {"map", "mapError", "flatMap", "filter", "ifRight", "ifLeft", "getOrElse",
     "getErrorOrElse", "unwrap", "unwrapError"}

\* The payload the Either x holds.
Payload(x) == IF x.tag = "Left" THEN x.error ELSE x.value

\* How many times the last call invoked the caller-supplied function fn.
Invocations(fn) == Cardinality({i \in DOMAIN calls : calls[i].fn = fn})

\* C1 (short-circuit): a call of map, flatMap, filter or ifRight on a Left
\* invokes no caller-supplied function at all, whatever the payload and
\* whatever calls came before; of all instance operations only mapError and
\* ifLeft invoke their function on a Left.
C1_ShortCircuit ==
    (op \in InstanceOps /\ isLeft(prev)) =>
        /\ op \in {"map", "flatMap", "filter", "ifRight"} => calls = <<>>
        /\ calls # <<>> <=> op \in {"mapError", "ifLeft"}

C1_Witness == op = "filter" /\ isLeft(prev) /\ calls = <<>>

\* C2 (failure propagation): once the caller holds a Left, every map, flatMap
\* or filter step, with any arguments, leaves it a Left with the same payload.
C2_FailurePropagates ==
    [][(isLeft(cur) /\ op' \in {"map", "flatMap", "filter"}) => cur' = cur]_vars

C2_Witness == op = "flatMap" /\ isLeft(prev) /\ isLeft(cur) /\ cur = prev

\* Exactly one of isRight / isLeft answers true on the Either x.
ExactlyOneVariant(x) == isRight(x) = ~isLeft(x)

\* C3 (exhaustiveness and exclusivity): for every Either a constructor, an
\* instance combinator or a static operation has produced, exactly one of
\* isRight() and isLeft() is true.
C3_Exclusive ==
    /\ ExactlyOneVariant(cur)
    /\ ExactlyOneVariant(prev)
    /\ \A i \in DOMAIN items : ExactlyOneVariant(items[i])
    /\ \A i \in DOMAIN aggRet : ExactlyOneVariant(aggRet[i])

C3_Witness == op = "sequence" /\ aggRet # <<>> /\ isLeft(aggRet[1]) /\ isRight(cur)

\* C4 (monad laws of flatMap), for the receiver m = prev and the mapper
\* f = args[1] of the flatMap call just made, whose result is cur, and every g:
\* left identity right(a).flatMap(f) = f(a); right identity
\* m.flatMap(right) = m; associativity
\* m.flatMap(f).flatMap(g) = m.flatMap(v -> f(v).flatMap(g)).
C4_MonadLaws ==
    op = "flatMap" =>
        LET f == args[1] IN
        /\ isRight(prev) => cur = f[Payload(prev)]
        /\ f = [v \in Val |-> right(v)] => cur = prev
        /\ \A g \in Kleisli :
               flatMap(cur, g).ret
                   = flatMap(prev, [v \in Val |-> flatMap(f[v], g).ret]).ret

C4_Witness == op = "flatMap" /\ isRight(prev) /\ isRight(cur) /\ cur # prev

\* C5 (functor laws of map), for the receiver x = prev and the mapper
\* f = args[1] of the map call just made, whose result is cur, and every g:
\* x.map(identity) = x; x.map(f).map(g) = x.map(v -> g(f(v))); the result is
\* Right(f(payload)) on a Right and a Left with the same payload on a Left.
C5_FunctorLaws ==
    op = "map" =>
        LET f == args[1] IN
        /\ f = [v \in Val |-> v] => cur = prev
        /\ \A g \in Mappers :
               map(cur, g).ret = map(prev, [v \in Val |-> g[f[v]]]).ret
        /\ isRight(prev) => cur = right(f[Payload(prev)])
        /\ isLeft(prev) => cur = left(Payload(prev))

C5_Witness == op = "map" /\ isRight(prev) /\ cur # prev

\* C6 (filter on a Right holding v): when predicate(v) holds the result is
\* Right(v) and errorFactory is not invoked; otherwise the result is
\* Left(errorFactory(v)); predicate is invoked exactly once, with v, and
\* errorFactory at most once.
C6_FilterOnRight ==
    (op = "filter" /\ isRight(prev)) =>
        LET v == Payload(prev)
            predicate == args[1]
            errorFactory == args[2]
        IN  /\ predicate[v] => (cur = right(v) /\ Invocations("errorFactory") = 0)
            /\ ~predicate[v] => cur = left(errorFactory[v])
            /\ Invocations("predicate") = 1
            /\ \A i \in DOMAIN calls : calls[i].arg = v
            /\ Invocations("errorFactory") <= 1

C6_Witness ==
    op = "filter" /\ isRight(prev) /\ isLeft(cur) /\ Invocations("errorFactory") = 1

\* C7 (extraction): unwrap returns the payload of a Right and throws on every
\* Left; unwrapError returns the payload of a Left and throws on every Right;
\* no other call of the type throws.
C7_Extraction ==
    /\ (op = "unwrap" /\ isRight(prev)) =>
           (ret = <<Payload(prev)>> /\ thrown = <<>>)
    /\ (op = "unwrap" /\ isLeft(prev)) => (ret = <<>> /\ thrown # <<>>)
    /\ (op = "unwrapError" /\ isLeft(prev)) =>
           (ret = <<Payload(prev)>> /\ thrown = <<>>)
    /\ (op = "unwrapError" /\ isRight(prev)) => (ret = <<>> /\ thrown # <<>>)
    /\ thrown # <<>> =>
           \/ op = "unwrap" /\ isLeft(prev)
           \/ op = "unwrapError" /\ isRight(prev)

C7_Witness == op = "unwrap" /\ isLeft(prev) /\ thrown # <<>>

\* The indices of the Lefts of the array s.
LeftIndices(s) == {i \in DOMAIN s : isLeft(s[i])}

\* The smallest number of a non-empty set of numbers.
Smallest(S) == CHOOSE i \in S : \A j \in S : i <= j

\* The payloads of the Lefts of s, in the order of s.
LeftPayloads(s) ==
    LET sel == SelectSeq(s, isLeft) IN [i \in 1 .. Len(sel) |-> Payload(sel[i])]

\* The payloads of the Rights of s, in the order of s.
RightPayloads(s) ==
    LET sel == SelectSeq(s, isRight) IN [i \in 1 .. Len(sel) |-> Payload(sel[i])]

\* C8 (combine): when combine has returned, if some item is a Left the result
\* is a Left carrying the payload of the Left of smallest index; if every item
\* is a Right (the empty array included) the result is a Right of all payloads
\* in the order of the array, as many as the array has items.
C8_Combine ==
    (op = "combine" /\ pc = "done") =>
        /\ Len(aggRet) = 1
        /\ IF LeftIndices(items) # {}
           THEN /\ isLeft(aggRet[1])
                /\ aggRet[1] = left(Payload(items[Smallest(LeftIndices(items))]))
           ELSE /\ isRight(aggRet[1])
                /\ aggRet[1] = right(RightPayloads(items))
                /\ Len(Payload(aggRet[1])) = Len(items)

C8_Witness ==
    /\ op = "combine" /\ pc = "done"
    /\ Cardinality(LeftIndices(items)) = 2
    /\ Smallest(LeftIndices(items)) = 2
    /\ items[2] # items[3]

\* C9 (sequence): sequence reads every item; when it has returned, the result
\* is a Left iff the array holds at least one Left, and then carries the
\* payloads of all Lefts in the order of the array (never an empty list);
\* otherwise it is a Right of all payloads in order; the collected lefts and
\* rights together are as many as the items read.
C9_Sequence ==
    op = "sequence" =>
        /\ Len(lefts) + Len(rights) = idx
        /\ pc = "done" =>
            /\ inspected = DOMAIN items
            /\ Len(lefts) + Len(rights) = Len(items)
            /\ Len(aggRet) = 1
            /\ isLeft(aggRet[1]) <=> LeftIndices(items) # {}
            /\ IF LeftIndices(items) # {}
               THEN /\ aggRet[1] = left(LeftPayloads(items))
                    /\ Payload(aggRet[1]) # <<>>
               ELSE aggRet[1] = right(RightPayloads(items))

C9_Witness ==
    /\ op = "sequence" /\ pc = "done"
    /\ Len(lefts) = 2 /\ Len(rights) = 1
    /\ isRight(items[1])
    /\ lefts[1] # lefts[2]

\* C10 (combine exits early): combine never reads an item that comes after a
\* Left; the loop is never running with a Left already read; and when it has
\* returned a Left, the items read are exactly those up to the first Left.
C10_CombineEarlyExit ==
    op = "combine" =>
        /\ \A i \in inspected : \A j \in 1 .. (i - 1) : ~isLeft(items[j])
        /\ pc = "combine" => \A i \in inspected : ~isLeft(items[i])
        /\ (pc = "done" /\ LeftIndices(items) # {}) =>
               inspected = 1 .. Smallest(LeftIndices(items))

C10_Witness ==
    /\ op = "combine" /\ pc = "done"
    /\ Len(items) = 3
    /\ isLeft(items[1])
    /\ inspected = {1}

\* C11 (fromPromise): the wrapped promise is awaited exactly once; the returned
\* promise never rejects and stays pending while the wrapped promise is
\* pending; once the call is over it is fulfilled with Right(v) when the
\* wrapped promise fulfilled with v and with Left(e) when it rejected with e;
\* and a settled wrapped promise always lets the call resume.
C11_FromPromise ==
    op = "fromPromise" =>
        /\ awaits = 1
        /\ returned.state # "rejected"
        /\ thrown = <<>>
        /\ promise = Pending => returned = Pending
        /\ returned.state = "fulfilled" <=> pc = "done"
        /\ (pc = "done" /\ promise.state = "fulfilled") =>
               (returned = Fulfilled(right(promise.value)) /\ cur = returned.value)
        /\ (pc = "done" /\ promise.state = "rejected") =>
               (returned = Fulfilled(left(promise.reason)) /\ cur = returned.value)
        /\ (pc = "awaiting" /\ promise # Pending) => ENABLED fromPromise_resume

C11_Witness ==
    /\ op = "fromPromise" /\ pc = "done"
    /\ promise.state = "rejected"
    /\ isLeft(cur)

\* C12 (fromNullable): the result is Left(error) exactly when the value is null
\* or undefined, and Right(value) for every other value, the falsy 0 included.
C12_FromNullable ==
    op = "fromNullable" =>
        LET value == args[1]
            error == args[2]
        IN  /\ isLeft(cur) <=> value \in {JsNull, JsUndefined}
            /\ value \in {JsNull, JsUndefined} => cur = left(error)
            /\ value \notin {JsNull, JsUndefined} => cur = right(value)
            /\ thrown = <<>>

C12_Witness == op = "fromNullable" /\ args[1] = 0 /\ cur = right(0)

\* C13 (ifRight / ifLeft): the callback is invoked exactly once, with the held
\* payload, when the variant matches and not at all otherwise; the call
\* returns its receiver; so of the two callbacks of x.ifRight(a).ifLeft(b), and
\* of x.ifLeft(b).ifRight(a), exactly one runs, exactly once.
C13_Callbacks ==
    /\ op = "ifRight" =>
           /\ cur = prev
           /\ calls = IF isRight(prev) THEN <<Call("callback", Payload(prev))>>
                      ELSE <<>>
           /\ Len(calls) + Len(ifLeft(cur, "callback").calls) = 1
    /\ op = "ifLeft" =>
           /\ cur = prev
           /\ calls = IF isLeft(prev) THEN <<Call("callback", Payload(prev))>>
                      ELSE <<>>
           /\ Len(calls) + Len(ifRight(cur, "callback").calls) = 1

C13_Witness == op = "ifLeft" /\ isRight(prev) /\ calls = <<>> /\ cur = prev

NonRaisingOps ==
    {"map", "mapError", "flatMap", "filter", "getOrElse", "getErrorOrElse",
     "fromNullable", "combine", "sequence"}

\* C15 (modelled failures are never raised): map, mapError, flatMap, filter,
\* getOrElse, getErrorOrElse, fromNullable, combine and sequence throw on no
\* input; combine and sequence never run into the error of unwrap / unwrapError,
\* whatever mix of Lefts and Rights the array holds.
C15_NeverRaises == op \in NonRaisingOps => thrown = <<>>

C15_Witness ==
    /\ op = "sequence" /\ pc = "done"
    /\ LeftIndices(items) # {}
    /\ LeftIndices(items) # DOMAIN items
    /\ thrown = <<>>

\* C16 (mapError): on Left(e) the result is Left(fn(e)) and fn is invoked
\* exactly once, with e; on Right(v) the result is Right(v) and fn is not
\* invoked.
C16_MapError ==
    op = "mapError" =>
        LET fn == args[1] IN
        /\ isLeft(prev) =>
               /\ cur = left(fn[Payload(prev)])
               /\ calls = <<Call("fn", Payload(prev))>>
        /\ isRight(prev) => (cur = prev /\ calls = <<>>)

C16_Witness == op = "mapError" /\ isLeft(prev) /\ cur # prev

\* C17 (getOrElse / getErrorOrElse): neither ever throws; getOrElse(d) returns
\* the held payload on a Right and d on a Left; getErrorOrElse(d) returns the
\* held payload on a Left and d on a Right.
C17_Defaults ==
    /\ op = "getOrElse" =>
           /\ thrown = <<>>
           /\ ret = <<IF isRight(prev) THEN Payload(prev) ELSE args[1]>>
    /\ op = "getErrorOrElse" =>
           /\ thrown = <<>>
           /\ ret = <<IF isLeft(prev) THEN Payload(prev) ELSE args[1]>>

C17_Witness ==
    op = "getOrElse" /\ isLeft(prev) /\ ret = <<args[1]>> /\ args[1] # Payload(prev)

\* C18 (match): match invokes exactly one of the two functions, exactly once,
\* with the held payload, and returns what that function returned: the left
\* function on a Left, the right function on a Right; the other function is
\* not invoked.
C18_Match ==
    op = "match" =>
        LET cases == args[1]
            chosen == IF isLeft(prev) THEN "left" ELSE "right"
            other == IF isLeft(prev) THEN "right" ELSE "left"
        IN  /\ calls = <<Call(chosen, Payload(prev))>>
            /\ Invocations(other) = 0
            /\ ret = <<IF isLeft(prev) THEN cases.left[Payload(prev)]
                       ELSE cases.right[Payload(prev)]>>
            /\ thrown = <<>>

C18_Witness ==
    /\ op = "match" /\ isLeft(prev)
    /\ args[1].left[Payload(prev)] # args[1].right[Payload(prev)]
    /\ ret = <<args[1].left[Payload(prev)]>>

\* C19 (/with-either): every handled request has exactly one reply sent,
\* chosen by the variant of the business result: on a Left the status is the
\* payload's code and the body {error: message}; on a Right the body is the
\* success payload as it is, no status set; before the handler has resumed
\* nothing is sent.
C19_OneReply ==
    \A i \in Requests :
        /\ rpc[i] # "done" => rsent[i] = <<>>
        /\ rpc[i] = "done" =>
               LET result == rresult[i][1].value IN
               /\ Len(rsent[i]) = 1
               /\ result.tag = "Left" =>
                      /\ rsent[i][1][1] = <<result.error.code>>
                      /\ rsent[i][1][2] = [error |-> result.error.message]
               /\ result.tag = "Right" =>
                      /\ rsent[i][1][1] = <<>>
                      /\ rsent[i][1][2] = result.value

C19_Witness ==
    \E i, j \in Requests :
        /\ rpc[i] = "done" /\ rpc[j] = "done"
        /\ rsent[i] = <<onLeft(APIError)>>
        /\ rsent[j] = <<onRight(SuccessResponse)>>

\* C20 (the report highlights the best approach): when runTests has ended,
\* nothing was thrown, the report is written, and for every connection level
\* among the results evaluateBestApproach returned a result of that level that
\* no result of the level outscores.
C20_ReportHighlightsBest ==
    bpc \in {"done", "failed"} =>
        /\ bthrown = <<>>
        /\ report # <<>>
        /\ \A i \in DOMAIN results :
               \E k \in DOMAIN bestResults :
                   /\ bestResults[k][1] = results[i].connections
                   /\ bestResults[k][2] # <<>>
                   /\ bestResults[k][2][1].connections = results[i].connections
                   /\ ~GreaterThan(score(results[i]), score(bestResults[k][2][1]))

\* C21 (the two aggregation policies): for one and the same array, combine
\* returns a Right exactly when sequence returns a Right, and then both hold
\* the same list of payloads; when they return a Left, the payload of combine
\* is the first element of the list of failures sequence holds.
C21_PoliciesAgree ==
    (pc = "done" /\ op \in {"combine", "sequence"} /\ aggRet # <<>>
        /\ earlier # <<>> /\ earlier[1] # op) =>
        LET c == IF op = "combine" THEN aggRet[1] ELSE earlier[2]
            s == IF op = "sequence" THEN aggRet[1] ELSE earlier[2]
        IN  /\ c.tag = "Right" <=> s.tag = "Right"
            /\ c.tag = "Right" => c.value = s.value
            /\ c.tag = "Left" => (s.error # <<>> /\ c.error = s.error[1])

C21_Witness ==
    /\ pc = "done" /\ op = "sequence" /\ aggRet # <<>>
    /\ earlier # <<>> /\ earlier[1] = "combine"
    /\ earlier[2].tag = "Left"
    /\ Len(aggRet[1].error) = 2
    /\ aggRet[1].error[1] # aggRet[1].error[2]
    /\ earlier[2].error = aggRet[1].error[1]

\* What the call just made yields in the documented version, for the same
\* receiver and arguments.
part_000_outcome ==
    CASE op = "map" -> part_000_map(prev, args[1])
      [] op = "mapError" -> part_000_mapError(prev, args[1])
      [] op = "flatMap" -> part_000_flatMap(prev, args[1])
      [] op = "filter" -> part_000_filter(prev, args[1], args[2])
      [] op = "ifRight" -> part_000_ifRight(prev, "callback")
      [] op = "ifLeft" -> part_000_ifLeft(prev, "callback")
      [] op = "getOrElse" -> part_000_getOrElse(prev, args[1])
      [] op = "getErrorOrElse" -> part_000_getErrorOrElse(prev, args[1])
      [] op = "unwrap" -> part_000_unwrap(prev)
      [] op = "unwrapError" -> part_000_unwrapError(prev)
      [] op = "left" -> Returned(part_000_left(args[1]), <<>>)
      [] op = "right" -> Returned(part_000_right(args[1]), <<>>)
      [] op = "fromNullable" -> part_000_fromNullable(args[1], args[2])
      [] op = "combine" -> part_000_combine(items)
      [] op = "sequence" -> part_000_sequence(items)

\* C22 (the two versions agree): every call of an operation both versions
\* have yields, in the documented version and for the same receiver and
\* arguments, the same variant and payload, the same invocations of the
\* caller's functions in the same order, and the same thrown error; the two
\* versions answer isRight / isLeft alike on every Either.
C22_VersionsAgree ==
    /\ part_000_isRight(cur) = isRight(cur)
    /\ part_000_isLeft(cur) = isLeft(cur)
    /\ op \in {"map", "mapError", "flatMap", "filter", "ifRight", "ifLeft", "left",
              "right", "fromNullable"} =>
           /\ cur = part_000_outcome.ret
           /\ calls = part_000_outcome.calls
           /\ thrown = part_000_outcome.thrown
    /\ op \in {"getOrElse", "getErrorOrElse", "unwrap", "unwrapError"} =>
           /\ thrown = part_000_outcome.thrown
           /\ thrown = <<>> => ret = <<part_000_outcome.ret>>
           /\ calls = part_000_outcome.calls
    /\ (op \in {"combine", "sequence"} /\ pc = "done") =>
           /\ thrown = part_000_outcome.thrown
           /\ thrown = <<>> => aggRet = <<part_000_outcome.ret>>
    /\ (op = "fromPromise" /\ pc = "done") =>
           returned = part_000_fromPromise(promise)

C22_Witness ==
    /\ op = "getErrorOrElse" /\ isLeft(prev)
    /\ args[1] # Payload(prev)
    /\ ret = <<Payload(prev)>>

====
